---- MODULE Spec2Model ----
(***************************************************************************)
(* A model of ripe-lg-graph.py: the prepend stripping of get_rrc_data, the *)
(* graph construction of make_bgpmap (add_node, add_edge, the path loop    *)
(* and the terminal edge) and the main loop with its exception hook.       *)
(*                                                                         *)
(* Python strings are sequences of one-character strings, so that split,   *)
(* join, replace, startswith, endswith and indexing (asmap[-1]) are        *)
(* computed as Python computes them.                                       *)
(***************************************************************************)
EXTENDS Integers, Sequences, FiniteSets, TLC

\* ------------------------------------------------------------------ bounds
\* Longest raw AS path given to the prepend stripping, in tokens.
MaxRawLen == 4
\* Peers (raw AS paths) fed to the prepend stripping in one run of SpecNorm.
MaxPeers == 1
\* Longest AS path of a vantage point given to make_bgpmap, in tokens.
MaxHops == 2
\* Most paths of one vantage point.
MaxPaths == 2
\* Most vantage points in one run of the main loop.
MaxRRCs == 3
\* Most add_edge calls on one endpoint pair in SpecMerge.
MaxCalls == 3

\* The AS numbers that occur in paths: two one-digit numbers and a number
\* that starts with one of them and ends with the other.
ASNumbers == { <<"1">>, <<"2">>, <<"1", "2">> }

\* The values random.randint draws for a path's colour, as "#%x" renders them.
PathColors == { <<"#", "0">>, <<"#", "f", "f", "f", "f", "f", "f">> }

\* ------------------------------------------------------- Python strings
\* s[a-1:b] of Python, positions counted from 1: the characters a..b that
\* exist (a slice never fails, it is clipped to the string).
slice(s, a, b) ==
    LET lo == IF a < 1 THEN 1 ELSE a
        hi == IF b > Len(s) THEN Len(s) ELSE b
    IN  [i \in 1..(hi - lo + 1) |-> s[lo + i - 1]]

RECURSIVE split(_, _)
\* str.split(sep) for a one-character separator: one piece more than there
\* are separators, empty pieces included.
split(s, sep) ==
    IF \A i \in 1..Len(s) : s[i] # sep
    THEN << s >>
    ELSE LET k == CHOOSE i \in 1..Len(s) :
                      s[i] = sep /\ \A j \in 1..(i - 1) : s[j] # sep
         IN  << slice(s, 1, k - 1) >> \o split(slice(s, k + 1, Len(s)), sep)

RECURSIVE join(_, _)
\* sep.join(list)
join(sep, list) ==
    IF list = << >> THEN << >>
    ELSE IF Len(list) = 1 THEN list[1]
    ELSE list[1] \o << sep >> \o join(sep, Tail(list))

\* s.startswith(prefix)
startswith(s, prefix) ==
    /\ Len(prefix) <= Len(s)
    /\ slice(s, 1, Len(prefix)) = prefix

\* s.endswith(c) for a one-character c
endswith(s, c) == Len(s) > 0 /\ s[Len(s)] = c

\* s.replace(c, "") for a one-character c
remove_char(s, c) == SelectSeq(s, LAMBDA x : x # c)

\* All sequences over S of length lo..hi.
SeqsOf(S, lo, hi) == UNION { [1..n -> S] : n \in lo..hi }

\* ----------------------------------------------------- prepend stripping
\* Line 128 as it would be if it compared the token with every token kept so
\* far: a non-adjacent repeat would be dropped too.
IsPrepend_sameAsAny(as_path_list, as_number) ==
    \E i \in 1..Len(as_path_list) : as_path_list[i] = as_number

\* Line 128: the token equals the last token appended so far ("" when none).
IsPrepend(as_path_list, as_number) ==
    LET n == Len(as_path_list)
    IN  join("", slice(as_path_list, n, n)) = as_number

RECURSIVE strip_loop(_, _)
\* Lines 127-130: the loop over as_path.split(" ").
strip_loop(tokens, as_path_list) ==
    IF tokens = << >> THEN as_path_list
    ELSE IF IsPrepend(as_path_list, Head(tokens))
         THEN strip_loop(Tail(tokens), as_path_list)
         ELSE strip_loop(Tail(tokens), Append(as_path_list, Head(tokens)))

\* Lines 123-132: the string appended to the vantage point's "paths".
strip_prepends(as_path) == join(" ", strip_loop(split(as_path, " "), << >>))

\* The raw AS paths of the looking glass: AS numbers separated by one space.
RawPaths == { join(" ", t) : t \in SeqsOf(ASNumbers, 0, MaxRawLen) }

\* ------------------------------------------------------------ the graph
\* Python's None, which no string of characters equals.
None == << "None" >>

\* f"{rrc} - {rrc_data_dict['location']}" (line 175); every vantage point is
\* given the location "X".
rrc_full_of(rrc_name) == rrc_name \o << " ", "-", " ", "X" >>

\* The name of the i-th vantage point: "RRC0<i>".
rrc_name_of(i) == << "R", "R", "C", "0" >> \o << ToString(i) >>

\* The node id of the target (lines 270-271).
Prefix == << "P", "r", "e", "f", "i", "x" >>

RECURSIVE replace_char(_, _, _)
\* s.replace(c, repl) for a one-character c
replace_char(s, c, repl) ==
    IF s = << >> THEN << >>
    ELSE (IF Head(s) = c THEN repl ELSE << Head(s) >>) \o replace_char(Tail(s), c, repl)

\* Lines 183-187.
escape(label) ==
    LET a == replace_char(label, "&", << "&", "a", "m", "p", ";" >>)
        b == replace_char(a, ">", << "&", "g", "t", ";" >>)
    IN  replace_char(b, "<", << "&", "l", "t", ";" >>)

\* The graph under construction: the dicts nodes and edges of make_bgpmap
\* and the node and edge lists of the pydot graph. edges maps an endpoint
\* pair to the position of its edge object in graph_edges.
EmptyGraph ==
    [nodes |-> << >>, graph_nodes |-> << >>, edges |-> << >>, graph_edges |-> << >>]

\* Lines 189-197 (the label of the node is left out).
add_node(g, _as, fillcolor, shape) ==
    IF _as \in DOMAIN g.nodes
    THEN g
    ELSE [g EXCEPT !.nodes = (_as :> [fillcolor |-> fillcolor, shape |-> shape]) @@ @,
                   !.graph_nodes = Append(@, _as)]

\* Line 205 as it would be with force always set: every call makes an edge.
NeedsNewEdge_always(force, edge_tuple, edges) == TRUE

\* Line 205: a new edge object is made.
NeedsNewEdge(force, edge_tuple, edges) == force \/ edge_tuple \notin DOMAIN edges

\* Line 218 as it would be without the test for the starred form.
HasStarred_never(labels, label_without_star) == FALSE

\* Line 218: the starred form of the label is already on the edge.
HasStarred(labels, label_without_star) ==
    \E i \in 1..Len(labels) : labels[i] = label_without_star \o << "*" >>

\* Lines 211-223: the label of an existing, labelled edge after add_edge is
\* called with a non-empty label.
merge_label(old_label, label) ==
    LET label_without_star == remove_char(label, "*")
        labels == split(old_label, "\r")
        kept == SelectSeq(labels, LAMBDA l : ~startswith(l, label_without_star))
        unsorted == << label >> \o kept
        sorted == SelectSeq(unsorted, LAMBDA l : endswith(l, "*"))
                  \o SelectSeq(unsorted, LAMBDA l : ~endswith(l, "*"))
    IN  IF HasStarred(labels, label_without_star)
        THEN old_label
        ELSE escape(join("\r", sorted))

\* Lines 199-225. has_label says whether the call passes label=...; the
\* calls of make_bgpmap never pass force. The edge returned is
\* graph_edges[edges[<<_previous_as, _as>>]] of the result.
add_edge(g, _previous_as, _as, has_label, label) ==
    LET edge_tuple == << _previous_as, _as >>
    IN  IF NeedsNewEdge(FALSE, edge_tuple, g.edges)
        THEN [g EXCEPT
                !.graph_edges = Append(@, [src |-> _previous_as, dst |-> _as,
                                           has_label |-> has_label,
                                           label |-> IF has_label THEN label ELSE << >>,
                                           style |-> "None", color |-> "None"]),
                !.edges = (edge_tuple :> (Len(g.graph_edges) + 1)) @@ @]
        ELSE IF has_label /\ label # << >>
        THEN LET i == g.edges[edge_tuple]
                 e == g.graph_edges[i]
             IN  IF e.has_label
                 THEN [g EXCEPT !.graph_edges[i].label = merge_label(e.label, label)]
                 ELSE g
        ELSE g

\* The edge object add_edge returns for an endpoint pair.
edge_of(g, _previous_as, _as) == g.edges[<< _previous_as, _as >>]

\* Lines 247 and 259: the test the code makes for "this is the path's last
\* AS": the token against the last character of the path string.
IsLastHop(_as, asmap) == _as = << asmap[Len(asmap)] >>

\* Line 250 as it would be if the first path's nodes were not highlighted.
NodeFill_white(first) == "white"

\* Line 250: the fill of a node that is not taken for a path's last AS.
NodeFill(first) == IF first THEN "#F5A9A9" ELSE "white"

\* Line 262 as it would be without the test for "bold".
MayDash_always(style) == TRUE

\* Line 262: the edge may be restyled as dashed.
MayDash(style) == style # "bold"

\* Lines 259-264: the edge object after the style step of one hop.
style_hop(e, first, is_last, color) ==
    IF first \/ is_last
    THEN [e EXCEPT !.style = "bold", !.color = "red"]
    ELSE IF MayDash(e.style)
    THEN [e EXCEPT !.style = "dashed", !.color = color]
    ELSE e

\* The paths get_rrc_data hands to make_bgpmap: stripped raw paths of at
\* least one AS (a peer always reports its own AS).
NormalizedPaths ==
    { strip_prepends(join(" ", t)) : t \in SeqsOf(ASNumbers, 1, MaxHops) }

\* The two paths of the documented two-path scenario.
ScenarioB ==
    << << "1", "0", "0", " ", "2", "0", "0", " ", "3", "0", "0" >>,
       << "1", "0", "0", " ", "4", "0", "0", " ", "3", "0", "0" >> >>

VARIABLES
    \* get_rrc_data, lines 122-132
    as_path,          \* the raw AS path of the peer read last
    norm_paths,       \* raw_returning_data[rrc_name]["paths"]
    \* __main__
    main_pc,          \* where the main block is
    valid,            \* what is_valid(args.address_prefix) returns
    api_rrcs,         \* data["data"]["rrcs"]: per vantage point its peers' raw paths
    rrc_path_data,    \* what get_rrc_data returned
    rrc_i,            \* vantage points the loop of line 308 has taken
    dir_exists,       \* ./output/<target_folder> exists
    written,          \* the vantage points whose png and svg are in it
    exc,              \* the exception raised and not caught, "None" if none
    \* make_bgpmap
    pc,               \* where make_bgpmap is
    rrc, paths,       \* its arguments: the name and rrc_data_dict["paths"]
    nodes, edges,     \* its dicts
    graph_nodes, graph_edges,   \* the pydot graph
    path_i,           \* paths the loop of line 232 has taken
    asmap,            \* the path string being walked
    tok_i,            \* tokens of asmap the loop of line 239 has taken
    previous_as, cur_as, as_bound,  \* previous_as, _as, and whether _as is bound
    first, hop, hop_label, color,
    \* add_edge called on one endpoint pair (SpecMerge)
    calls,            \* calls made
    call_has_label, call_label,  \* the arguments of the last call
    label_before      \* the edge's label before the last call (None: no label)

norm_vars == << as_path, norm_paths >>
main_vars == << main_pc, valid, api_rrcs, rrc_path_data, rrc_i, dir_exists, exc >>
args_vars == << rrc, paths >>
graph_vars == << nodes, edges, graph_nodes, graph_edges >>
loop_vars == << path_i, asmap, tok_i, previous_as, cur_as, as_bound, first, hop,
                hop_label, color >>
call_vars == << calls, call_has_label, call_label, label_before >>
vars == << norm_vars, main_vars, written, pc, args_vars, graph_vars, loop_vars,
           call_vars >>

\* The graph as one value, and its assignment to the variables.
Graph ==
    [nodes |-> nodes, graph_nodes |-> graph_nodes, edges |-> edges,
     graph_edges |-> graph_edges]

SetGraph(g) ==
    /\ nodes' = g.nodes
    /\ graph_nodes' = g.graph_nodes
    /\ edges' = g.edges
    /\ graph_edges' = g.graph_edges

rrc_full == rrc_full_of(rrc)

\* ------------------------------------------------------- idle components
NormIdle == as_path = << >> /\ norm_paths = << >>

BuildIdle ==
    /\ pc = "idle" /\ rrc = None /\ paths = << >>
    /\ nodes = << >> /\ edges = << >> /\ graph_nodes = << >> /\ graph_edges = << >>
    /\ path_i = 0 /\ asmap = None /\ tok_i = 0
    /\ previous_as = None /\ cur_as = None /\ as_bound = FALSE
    /\ first = TRUE /\ hop = FALSE /\ hop_label = << >> /\ color = "None"

CallIdle ==
    /\ calls = 0 /\ call_has_label = FALSE /\ call_label = << >>
    /\ label_before = None

MainIdle ==
    /\ main_pc = "idle" /\ valid = TRUE /\ api_rrcs = << >>
    /\ rrc_path_data = << >> /\ rrc_i = 0 /\ dir_exists = FALSE
    /\ written = {} /\ exc = "None"

\* ----------------------------------------------------- get_rrc_data
InitNorm == NormIdle /\ BuildIdle /\ CallIdle /\ MainIdle

\* Lines 122-132: one peer of the vantage point is read and its stripped
\* path appended.
ProcessPeer ==
    /\ Len(norm_paths) < MaxPeers
    /\ \E raw \in RawPaths :
        /\ as_path' = raw
        /\ norm_paths' = Append(norm_paths, strip_prepends(raw))
    /\ UNCHANGED << main_vars, written, pc, args_vars, graph_vars, loop_vars, call_vars >>

NextNorm == ProcessPeer

SpecNorm == InitNorm /\ [][NextNorm]_vars

\* ------------------------------------------------------- make_bgpmap
\* The state at the call make_bgpmap(rrc, rrc_data_dict) of line 309 for a
\* single vantage point, the output directories made.
Init ==
    /\ NormIdle /\ CallIdle
    /\ \E pl \in SeqsOf(NormalizedPaths, 0, MaxPaths) \cup { ScenarioB } :
        /\ paths = pl
        /\ api_rrcs = << [rrc |-> rrc_name_of(0), peers |-> pl] >>
        /\ rrc_path_data = << [rrc |-> rrc_name_of(0), paths |-> pl] >>
    /\ rrc = rrc_name_of(0)
    /\ main_pc = "loop" /\ valid = TRUE /\ rrc_i = 1 /\ dir_exists = TRUE
    /\ written = {} /\ exc = "None"
    /\ pc = "call"
    /\ nodes = << >> /\ edges = << >> /\ graph_nodes = << >> /\ graph_edges = << >>
    /\ path_i = 0 /\ asmap = None /\ tok_i = 0
    /\ previous_as = None /\ cur_as = None /\ as_bound = FALSE
    /\ first = TRUE /\ hop = FALSE /\ hop_label = << >> /\ color = "None"

\* Lines 175-230: the graph is made, the vantage point's node added.
Enter ==
    /\ pc = "call"
    /\ SetGraph(add_node(EmptyGraph, rrc_full, "#F5A9A9", "box"))
    /\ previous_as' = None
    /\ first' = TRUE
    /\ path_i' = 0 /\ asmap' = None /\ tok_i' = 0
    /\ cur_as' = None /\ as_bound' = FALSE
    /\ hop' = FALSE /\ hop_label' = << >> /\ color' = "None"
    /\ pc' = "paths"
    /\ UNCHANGED << norm_vars, main_vars, written, args_vars, call_vars >>

\* Lines 232-237: the next path is taken and its colour drawn.
NextPath ==
    /\ pc = "paths"
    /\ path_i < Len(paths)
    /\ path_i' = path_i + 1
    /\ asmap' = paths[path_i + 1]
    /\ previous_as' = rrc_full
    /\ \E c \in PathColors : color' = c
    /\ hop' = FALSE
    /\ hop_label' = << >>
    /\ tok_i' = 0
    /\ pc' = "hops"
    /\ UNCHANGED << norm_vars, main_vars, written, args_vars, graph_vars, cur_as,
                    as_bound, first, call_vars >>

\* Lines 239-266: one AS of the path: its node, the edge into it, the
\* edge's style.
Hop ==
    /\ pc = "hops"
    /\ tok_i < Len(split(asmap, " "))
    /\ LET _as == split(asmap, " ")[tok_i + 1]
           label == IF ~hop
                    THEN (IF first THEN _as \o << "*" >> ELSE _as)
                    ELSE hop_label
           is_last == IsLastHop(_as, asmap)
           g1 == IF is_last
                 THEN add_node(Graph, _as, "#F5A9A9", "box")
                 ELSE add_node(Graph, _as, NodeFill(first), "None")
           g2 == IF label # << >>
                 THEN add_edge(g1, previous_as, _as, TRUE, label)
                 ELSE add_edge(g1, previous_as, _as, FALSE, << >>)
           i == edge_of(g2, previous_as, _as)
           g3 == [g2 EXCEPT !.graph_edges[i] = style_hop(@, first, is_last, color)]
       IN  /\ SetGraph(g3)
           /\ previous_as' = _as
           /\ cur_as' = _as
    /\ as_bound' = TRUE
    /\ hop' = TRUE
    /\ hop_label' = << >>
    /\ tok_i' = tok_i + 1
    /\ UNCHANGED << norm_vars, main_vars, written, pc, args_vars, path_i, asmap,
                    first, color, call_vars >>

\* Line 268: the path is walked; the paths after it are not the first.
EndPath ==
    /\ pc = "hops"
    /\ tok_i = Len(split(asmap, " "))
    /\ first' = FALSE
    /\ pc' = "paths"
    /\ UNCHANGED << norm_vars, main_vars, written, args_vars, graph_vars, path_i,
                    asmap, tok_i, previous_as, cur_as, as_bound, hop, hop_label,
                    color, call_vars >>

\* Line 271 as it would be if the edge started at the vantage point's node.
TerminalSource_vantage == rrc_full

\* Line 271: the source of the edge into the target node, nodes[_as].
TerminalSource == cur_as

\* Lines 270-273: the target node and the edge into it. With no path walked
\* _as was never bound and line 271 raises UnboundLocalError, the target
\* node already added.
Terminal ==
    /\ pc = "paths"
    /\ path_i = Len(paths)
    /\ LET g1 == add_node(Graph, Prefix, "#F5A9A9", "box")
           g2 == add_edge(g1, TerminalSource, Prefix, FALSE, << >>)
           i == edge_of(g2, TerminalSource, Prefix)
           g3 == [g2 EXCEPT !.graph_edges[i].style = "bold",
                            !.graph_edges[i].color = "red"]
       IN  IF as_bound
           THEN SetGraph(g3) /\ pc' = "write" /\ exc' = exc
           ELSE SetGraph(g1) /\ pc' = "raised" /\ exc' = "UnboundLocalError"
    /\ UNCHANGED << norm_vars, main_pc, valid, api_rrcs, rrc_path_data, rrc_i,
                    dir_exists, written, args_vars, loop_vars, call_vars >>

\* Lines 275-278: the graph is rendered to the png and the svg.
Write ==
    /\ pc = "write"
    /\ written' = written \cup { rrc }
    /\ pc' = "returned"
    /\ UNCHANGED << norm_vars, main_vars, args_vars, graph_vars, loop_vars, call_vars >>

Next == Enter \/ NextPath \/ Hop \/ EndPath \/ Terminal \/ Write

Spec == Init /\ [][Next]_vars

\* ----------------------------------------------------------- __main__
\* The peers a vantage point of the looking glass's answer may have: none,
\* one with a prepended path, two.
RunPeers ==
    { << >>,
      << join(" ", << << "1" >>, << "1" >>, << "1", "2" >> >>) >>,
      << join(" ", << << "2" >> >>),
         join(" ", << << "2" >>, << "1", "2" >>, << "1", "2" >> >>) >> }

InitMain ==
    /\ NormIdle /\ CallIdle /\ BuildIdle
    /\ main_pc = "start"
    /\ valid \in BOOLEAN
    /\ api_rrcs \in { [i \in 1..Len(f) |-> [rrc |-> rrc_name_of(i), peers |-> f[i]]] :
                        f \in SeqsOf(RunPeers, 0, MaxRRCs) }
    /\ rrc_path_data = << >>
    /\ rrc_i = 0
    /\ dir_exists = FALSE
    /\ written = {}
    /\ exc = "None"

\* Lines 302 and 313: an invalid address or prefix raises.
Validate ==
    /\ main_pc = "start"
    /\ IF valid
       THEN main_pc' = "fetch" /\ exc' = exc
       ELSE main_pc' = "uncaught" /\ exc' = "AddressOrPrefixNotFoundError"
    /\ UNCHANGED << norm_vars, valid, api_rrcs, rrc_path_data, rrc_i, dir_exists,
                    written, pc, args_vars, graph_vars, loop_vars, call_vars >>

\* Line 303, get_rrc_data (lines 105-150, with no --rrc given): an answer
\* with no vantage point raises, otherwise every peer's path is stripped.
GetRrcData ==
    /\ main_pc = "fetch"
    /\ IF Len(api_rrcs) = 0
       THEN /\ main_pc' = "uncaught"
            /\ exc' = "AddressOrPrefixNotFoundError"
            /\ rrc_path_data' = rrc_path_data
       ELSE /\ main_pc' = "mkdirs"
            /\ exc' = exc
            /\ rrc_path_data' =
                 [i \in 1..Len(api_rrcs) |->
                    [rrc |-> api_rrcs[i].rrc,
                     paths |-> [k \in 1..Len(api_rrcs[i].peers) |->
                                  strip_prepends(api_rrcs[i].peers[k])]]]
    /\ UNCHANGED << norm_vars, valid, api_rrcs, rrc_i, dir_exists, written, pc,
                    args_vars, graph_vars, loop_vars, call_vars >>

\* Lines 305-306.
MakeDirs ==
    /\ main_pc = "mkdirs"
    /\ dir_exists' = TRUE
    /\ main_pc' = "loop"
    /\ UNCHANGED << norm_vars, valid, api_rrcs, rrc_path_data, rrc_i, exc, written,
                    pc, args_vars, graph_vars, loop_vars, call_vars >>

\* Lines 308-309: the next vantage point is handed to make_bgpmap.
CallMakeBgpmap ==
    /\ main_pc = "loop"
    /\ pc \in { "idle", "returned" }
    /\ rrc_i < Len(rrc_path_data)
    /\ rrc_i' = rrc_i + 1
    /\ rrc' = rrc_path_data[rrc_i + 1].rrc
    /\ paths' = rrc_path_data[rrc_i + 1].paths
    /\ pc' = "call"
    /\ UNCHANGED << norm_vars, main_pc, valid, api_rrcs, rrc_path_data, dir_exists,
                    exc, written, graph_vars, loop_vars, call_vars >>

\* Line 311: every vantage point is built.
Finish ==
    /\ main_pc = "loop"
    /\ pc \in { "idle", "returned" }
    /\ rrc_i = Len(rrc_path_data)
    /\ main_pc' = "exit"
    /\ UNCHANGED << norm_vars, valid, api_rrcs, rrc_path_data, rrc_i, dir_exists,
                    exc, written, pc, args_vars, graph_vars, loop_vars, call_vars >>

\* Lines 281-286: an exception nobody caught reaches the hook, which removes
\* the run's output directory if it exists; the process ends.
except_clearence_hook ==
    /\ main_pc # "exit"
    /\ exc # "None"
    /\ IF dir_exists
       THEN dir_exists' = FALSE /\ written' = {}
       ELSE dir_exists' = dir_exists /\ written' = written
    /\ main_pc' = "exit"
    /\ UNCHANGED << norm_vars, valid, api_rrcs, rrc_path_data, rrc_i, exc, pc,
                    args_vars, graph_vars, loop_vars, call_vars >>

NextMain ==
    \/ Validate \/ GetRrcData \/ MakeDirs \/ CallMakeBgpmap \/ Finish
    \/ except_clearence_hook
    \/ Enter \/ NextPath \/ Hop \/ EndPath \/ Terminal \/ Write

SpecMain == InitMain /\ [][NextMain]_vars

\* ------------------------------------------- add_edge on one endpoint pair
\* The labels add_edge is called with: an AS, or an AS marked primary.
EdgeLabels == ASNumbers \cup { t \o << "*" >> : t \in ASNumbers }

\* The endpoint pair of the calls.
MergeFrom == rrc_full_of(rrc_name_of(0))
MergeTo == << "1" >>

InitMerge == NormIdle /\ CallIdle /\ BuildIdle /\ MainIdle

\* Lines 199-225: one call add_edge(MergeFrom, MergeTo[, label=...]); the
\* first call makes the edge.
CallAddEdge ==
    /\ calls < MaxCalls
    /\ \E has \in BOOLEAN, l \in EdgeLabels :
        /\ call_has_label' = has
        /\ call_label' = (IF has THEN l ELSE << >>)
        /\ SetGraph(add_edge(Graph, MergeFrom, MergeTo, has, IF has THEN l ELSE << >>))
    /\ label_before' =
         (IF << MergeFrom, MergeTo >> \in DOMAIN edges
             /\ graph_edges[edges[<< MergeFrom, MergeTo >>]].has_label
          THEN graph_edges[edges[<< MergeFrom, MergeTo >>]].label
          ELSE None)
    /\ calls' = calls + 1
    /\ UNCHANGED << norm_vars, main_vars, written, pc, args_vars, loop_vars >>

NextMerge == CallAddEdge

SpecMerge == InitMerge /\ [][NextMerge]_vars

\* ---------------------------------------------------------------- claims
\* The tokens of a path string, and its last token.
TokensOf(path) == split(path, " ")
LastTokenOf(path) == TokensOf(path)[Len(TokensOf(path))]

\* The positions in graph_edges of the edge objects from a to b.
EdgeObjects(a, b) ==
    { i \in 1..Len(graph_edges) : graph_edges[i].src = a /\ graph_edges[i].dst = b }

\* The label set of an edge object, in rendered order.
LabelsOf(e) == IF e.has_label THEN split(e.label, "\r") ELSE << >>

Highlighted(e) == e.style = "bold" /\ e.color = "red"

\* make_bgpmap has handed the graph to the renderer.
Built == pc \in { "write", "returned" }

\* C2: while make_bgpmap builds a vantage point's graph, the graph holds at
\* most one edge object per ordered (source, destination) pair, the dict
\* edges names exactly these objects, and an endpoint pair once in edges
\* keeps its edge object: every later add_edge call returns that object.
C2_EdgesUnique ==
    /\ \A i, j \in 1..Len(graph_edges) :
          (graph_edges[i].src = graph_edges[j].src
              /\ graph_edges[i].dst = graph_edges[j].dst) => i = j
    /\ Len(graph_edges) = Cardinality(DOMAIN edges)
    /\ \A t \in DOMAIN edges :
          /\ edges[t] \in 1..Len(graph_edges)
          /\ graph_edges[edges[t]].src = t[1]
          /\ graph_edges[edges[t]].dst = t[2]

C2_SameEdgeReturned ==
    pc # "call" =>
        \A t \in DOMAIN edges : t \in DOMAIN edges' /\ edges'[t] = edges[t]

\* C2: both parts, in every state and step of the build.
C2_SingleEdgePerPair == [] C2_EdgesUnique /\ [][C2_SameEdgeReturned]_vars

\* C2 witness: two paths with the same two hops are walked and the graph
\* holds three edges: those two hops and the terminal edge.
C2_Witness ==
    /\ pc = "returned"
    /\ Len(paths) = 2
    /\ paths[1] = paths[2]
    /\ Len(TokensOf(paths[1])) = 2
    /\ Len(graph_edges) = 3

\* C3: on every edge the primary-marked labels come before the unmarked
\* ones, and when a later path's unmarked first-hop label reaches an edge
\* that carries the starred label of the same AS, the label is unchanged.
C3_StarredFirst ==
    \A i \in 1..Len(graph_edges) :
        LET labels == LabelsOf(graph_edges[i])
        IN  \A a, b \in 1..Len(labels) :
                (a < b /\ endswith(labels[b], "*")) => endswith(labels[a], "*")

C3_StarredKept ==
    (pc = "hops" /\ tok_i = 0 /\ ~first /\ tok_i' = 1) =>
        LET _as == TokensOf(asmap)[1]
            t == << rrc_full, _as >>
        IN  (t \in DOMAIN edges
                /\ \E k \in 1..Len(LabelsOf(graph_edges[edges[t]])) :
                      LabelsOf(graph_edges[edges[t]])[k] = _as \o << "*" >>)
            => /\ graph_edges'[edges[t]].label = graph_edges[edges[t]].label
               /\ graph_edges'[edges[t]].has_label

\* C3: both parts, in every state and step of the build.
C3_PrimaryLabelPrecedence == [] C3_StarredFirst /\ [][C3_StarredKept]_vars

\* C3 witness: the second path has begun with the AS the first path began
\* with, and the edge from the vantage point still carries only "<AS>*".
C3_Witness ==
    /\ pc = "hops" /\ path_i = 2 /\ tok_i = 1
    /\ TokensOf(paths[1])[1] = cur_as
    /\ LabelsOf(graph_edges[edges[<< rrc_full, cur_as >>]]) = << cur_as \o << "*" >> >>

\* C4: an edge that is bold and red stays bold and red under every later
\* step of the build.
C4_StaysHighlighted ==
    pc # "call" =>
        \A i \in 1..Len(graph_edges) :
            Highlighted(graph_edges[i]) =>
                i <= Len(graph_edges') /\ Highlighted(graph_edges'[i])

\* C4: style monotonicity, in every step of the build up to the rendering.
C4_StyleMonotonic == [][C4_StaysHighlighted]_vars

\* C4 witness: a later path's hop that is neither of the first path nor
\* taken for the last one has crossed an edge the first path made bold.
C4_Witness ==
    /\ pc = "hops" /\ ~first /\ tok_i = 1
    /\ ~IsLastHop(cur_as, asmap)
    /\ TokensOf(paths[1])[1] = cur_as
    /\ Highlighted(graph_edges[edges[<< rrc_full, cur_as >>]])

\* C5: building a vantage point with no path does not fail and gives the
\* two nodes {vantage point, target} and one highlighted edge between them.
C5_EmptyPathSetMinimalGraph ==
    (paths = << >> /\ pc \notin { "call", "paths" }) =>
        /\ Built
        /\ exc = "None"
        /\ DOMAIN nodes = { rrc_full, Prefix }
        /\ Len(graph_edges) = 1
        /\ graph_edges[1].src = rrc_full
        /\ graph_edges[1].dst = Prefix
        /\ Highlighted(graph_edges[1])

AS100 == << "1", "0", "0" >>
AS200 == << "2", "0", "0" >>
AS300 == << "3", "0", "0" >>
AS400 == << "4", "0", "0" >>

\* What C6 and its amendment share: node 100 is created once, the edge from
\* the vantage point to 100 carries only "100*", the edge 300 -> target is
\* highlighted.
ScenarioB_Common ==
    /\ Cardinality({ i \in 1..Len(graph_nodes) : graph_nodes[i] = AS100 }) = 1
    /\ Cardinality(EdgeObjects(rrc_full, AS100)) = 1
    /\ \A i \in EdgeObjects(rrc_full, AS100) :
          LabelsOf(graph_edges[i]) = << AS100 \o << "*" >> >>
    /\ Cardinality(EdgeObjects(AS300, Prefix)) = 1
    /\ \A i \in EdgeObjects(AS300, Prefix) : Highlighted(graph_edges[i])

\* C6 as stated: in scenario B nodes 200 and 400 both have the white fill.
C6_ScenarioB_Original ==
    (paths = ScenarioB /\ Built) =>
        /\ ScenarioB_Common
        /\ nodes[AS200].fillcolor = "white"
        /\ nodes[AS400].fillcolor = "white"

\* C6 amended: in scenario B node 200, on the primary path, has the
\* highlighted fill and node 400 the white fill; the rest as stated.
C6_ScenarioB ==
    (paths = ScenarioB /\ Built) =>
        /\ ScenarioB_Common
        /\ nodes[AS200].fillcolor = "#F5A9A9"
        /\ nodes[AS400].fillcolor = "white"

C6_Witness == paths = ScenarioB /\ pc = "returned" /\ AS400 \in DOMAIN nodes

\* C8: a token is taken for the path's final hop exactly when it is at the
\* last index, and when a path is walked the edge into its last token is
\* highlighted.
C8_FinalHopPositional ==
    /\ (pc = "hops" /\ tok_i < Len(TokensOf(asmap))) =>
          (IsLastHop(TokensOf(asmap)[tok_i + 1], asmap)
              <=> tok_i + 1 = Len(TokensOf(asmap)))
    /\ (pc = "hops" /\ tok_i = Len(TokensOf(asmap))) =>
          LET n == Len(TokensOf(asmap))
              from == IF n = 1 THEN rrc_full ELSE TokensOf(asmap)[n - 1]
          IN  Highlighted(graph_edges[edges[<< from, TokensOf(asmap)[n] >>]])

\* C9: when a vantage point with at least one path is built, the target
\* node is a highlighted box created once, it has exactly one incoming
\* edge, from the last token of the last path and highlighted, and no
\* outgoing edge.
C9_TerminalEdge ==
    (Built /\ paths # << >>) =>
        /\ Prefix \in DOMAIN nodes
        /\ nodes[Prefix] = [fillcolor |-> "#F5A9A9", shape |-> "box"]
        /\ Cardinality({ i \in 1..Len(graph_nodes) : graph_nodes[i] = Prefix }) = 1
        /\ \A i \in 1..Len(graph_edges) :
              /\ graph_edges[i].src # Prefix
              /\ graph_edges[i].dst = Prefix =>
                    /\ graph_edges[i].src = LastTokenOf(paths[Len(paths)])
                    /\ Highlighted(graph_edges[i])
        /\ Cardinality(EdgeObjects(LastTokenOf(paths[Len(paths)]), Prefix)) = 1

\* C9 witness: two paths that end in different ASes are built.
C9_Witness ==
    /\ pc = "returned"
    /\ Len(paths) = 2
    /\ LastTokenOf(paths[1]) # LastTokenOf(paths[2])

RECURSIVE CollapseFrom(_, _)
\* The tokens t[i..] with every token that repeats its left neighbour
\* dropped: each maximal run of equal adjacent tokens becomes one token.
CollapseFrom(t, i) ==
    IF i > Len(t) THEN << >>
    ELSE (IF i = 1 \/ t[i] # t[i - 1] THEN << t[i] >> ELSE << >>)
         \o CollapseFrom(t, i + 1)

\* C1: the stripped path is the raw path with each maximal run of equal
\* adjacent tokens collapsed to one token and every other token kept in
\* order; it has no two equal adjacent tokens, and stripping it again
\* returns it unchanged.
C1_PrependStripping ==
    \A k \in 1..Len(norm_paths) :
        LET out == norm_paths[k]
            toks == TokensOf(out)
        IN  /\ k = Len(norm_paths) =>
                  out = join(" ", CollapseFrom(TokensOf(as_path), 1))
            /\ \A i \in 1..(Len(toks) - 1) : toks[i] # toks[i + 1]
            /\ strip_prepends(out) = out

\* C1 witness: a path with a prepend run and a non-adjacent repeat is
\* stripped: "1 1 2 1" gives "1 2 1".
C1_Witness ==
    /\ as_path = join(" ", << << "1" >>, << "1" >>, << "2" >>, << "1" >> >>)
    /\ norm_paths = << join(" ", << << "1" >>, << "2" >>, << "1" >> >>) >>

\* C7: a vantage point with no path does not end the run: every vantage
\* point the loop has finished with has its graph in the output directory,
\* and a run with a valid address and a non-empty answer ends with the
\* graphs of all its vantage points written; only the invalid-address and
\* no-data errors end the run, and they do so before any graph work.
C7_EmptyPathSetNonFatal ==
    /\ exc \in { "None", "AddressOrPrefixNotFoundError" }
    /\ exc = "AddressOrPrefixNotFoundError" =>
          pc = "idle" /\ ~dir_exists /\ graph_nodes = << >>
    /\ \A i \in 1..Len(rrc_path_data) :
          (i < rrc_i \/ (i = rrc_i /\ pc = "returned")) =>
              rrc_path_data[i].rrc \in written
    /\ (main_pc = "exit" /\ valid /\ api_rrcs # << >>) =>
          written = { api_rrcs[i].rrc : i \in 1..Len(api_rrcs) }

\* A label with its trailing primary marker stripped.
Bare(l) == IF endswith(l, "*") THEN slice(l, 1, Len(l) - 1) ELSE l

\* C10: add_edge called on an existing, labelled edge with a non-empty label
\* whose starred form is not in the label set leaves: the old entries whose
\* bare form differs from the new label's, then the new label, the
\* primary-marked entries moved before the unmarked ones.
C10_MergeRule ==
    (calls >= 2 /\ call_has_label /\ label_before # None) =>
        LET old == split(label_before, "\r")
            new == call_label
            kept == SelectSeq(old, LAMBDA l : Bare(l) # Bare(new))
            all == Append(kept, new)
            expected == SelectSeq(all, LAMBDA l : endswith(l, "*"))
                        \o SelectSeq(all, LAMBDA l : ~endswith(l, "*"))
        IN  (\A k \in 1..Len(old) : old[k] # Bare(new) \o << "*" >>) =>
                LabelsOf(graph_edges[edges[<< MergeFrom, MergeTo >>]]) = expected

====
